---- MODULE Spec2Model ----
(***************************************************************************)
(* The connection manager of mongo-wrapper (src/src/Mongo.ts, lines 1-336, *)
(* the current revision): MongoConnect.connect, getConnectionUrl,          *)
(* getHealthyHosts, isValidError and handleMongoError, run by the          *)
(* single-threaded JavaScript event loop.                                  *)
(*                                                                         *)
(* One manager is modelled.  Every await of the code is a suspension       *)
(* point and every action is the synchronous stretch of code between two   *)
(* suspension points.  The job queue of promise reactions is the variable  *)
(* mq: continuations of getConnectionUrl and of connect() behind it,       *)
(* continuations of handleMongoError calls, the reaction that settles      *)
(* the promise `mongo.connect().then(() => null)`, and jobs of the         *)
(* embedding application.  The reactions of one promise are queued         *)
(* together when it settles, so no other code runs between them.           *)
(***************************************************************************)
EXTENDS Integers, Sequences, FiniteSets, TLC

(* ------------------------------ bounds --------------------------------- *)

\* connect() invocations per behaviour (their ids also name the MongoClient
\* a successful invocation creates and the promise a recovery stores).
MaxConnects == 2

\* Concurrent callers of handleMongoError (a caller may call again after
\* its call has completed).
NumCallers == 2

\* Jobs of the embedding application waiting in the job queue at one time.
MaxEnvJobs == 1

\* Retryable failures the driver produces in one behaviour of Spec (SpecConnect
\* leaves them unbounded, so that connect() can exhaust its attempts).
MaxFaults == 2

(* ------------------------- program constants --------------------------- *)

\* while (!connected && attempt <= 10)
MaxAttempts == 10

\* setTimeout(res, 2 * attempt * 1000)
BackoffFactor == 2

MsPerSecond == 1000

Connects == 1..MaxConnects
Callers == 1..NumCallers

\* Values of a field that holds no object: `undefined` (never assigned) and
\* `null`; an object is named by the id (>= 1) of the invocation that made it.
Undefined == 0 - 1
Null == 0

(* --------------------------- configuration ----------------------------- *)

S1 == [host |-> "h1", port |-> 27017]
S2 == [host |-> "h2", port |-> 27018]

\* MODES
MODES == {"server", "replset", "shard"}

\* AuthConfig: <<>> when userConfig.auth is absent, else <<username, password>>.
AuthConfigs == {<<>>, <<"u", "p">>}

\* Results a caller-supplied shard.getServers may resolve to.
ShardLists == {<<>>, <<S1>>, <<S2, S1>>}

\* The fixed replica.servers of a ReplicaConfig.
ReplicaServers == <<S1, S2>>

\* replica: { name, servers } of a ReplicaConfig
Replicas == {[name |-> "rs0", servers |-> ReplicaServers],
             [name |-> "rs1", servers |-> <<S2>>]}

\* shard: { getServers } of a ShardConfig: the caller's function, given by the
\* set of lists it may resolve to.
Shards == {[getServers |-> ShardLists], [getServers |-> {<<S1>>}]}

\* MongoConfig = ServerConfig | ReplicaConfig | ShardConfig.  An optional
\* field is a sequence of length 0 or 1; host and port are the field server.
MongoConfigs ==
  {c \in [server : {<<>>, <<S1>>, <<S2>>},
          replica : {<<>>} \cup {<<r>> : r \in Replicas},
          shard : {<<>>} \cup {<<f>> : f \in Shards},
          auth : AuthConfigs] :
     c.server # <<>> \/ c.replica # <<>> \/ c.shard # <<>>}

\* Mode tags a caller may pass: the members of MODES and one that is none.
ModeTags == MODES \cup {"cluster"}

\* The name argument of the factories.
Names == {"", "my svc"}

\* Errors: the three driver classes isValidError accepts and any other.
ErrKinds == {"MongoServerSelectionError", "MongoNetworkError",
             "MongoNetworkTimeoutError", "OtherError"}

\* A classification that lets every error through as retryable.
isValidErrorAll(err) == err \in ErrKinds

\* A classification with the server-selection test inverted.
isValidErrorInverted(err) == err # "MongoServerSelectionError"

\* A classification that leaves the network-timeout failure out.
isValidErrorNoTimeout(err) ==
  err \in {"MongoServerSelectionError", "MongoNetworkError"}

\* static isValidError(err)
isValidError(err) ==
  err \in {"MongoServerSelectionError", "MongoNetworkError",
           "MongoNetworkTimeoutError"}

(* ------------------------------- state --------------------------------- *)

VARIABLES
  factoryCall,   \* the factory call that makes the manager: [via, mode, name, config]
  built,         \* "pending", "manager", or the error the factory raised
  userConfig,    \* this.userConfig: [auth, getServers]
  name,          \* this.name
  config,        \* this.config: the client options
  mode,          \* this.mode
  mongoClient,   \* this.mongoClient: Undefined or a client id
  client,        \* this.client (Db): Undefined or the client id it derives from
  reconnecting,  \* mongo.reconnecting: Undefined, Null or a promise id
  healthyHosts,  \* this.healthyHosts: UnsetHosts or a server list
  closed,        \* client ids on which close() has been called
  closeDone,     \* client ids whose close() has completed
  lastProvided,  \* history: the last non-empty list a provider call returned
  conn,          \* the connect() invocations
  prom,          \* state of the promise mongo.connect().then(() => null)
  waiters,       \* reactions registered on each such promise, in order
  call,          \* the handleMongoError calls, one slot per caller
  mq             \* the job queue

mgr == <<mongoClient, client, healthyHosts, closed, closeDone, lastProvided>>
cfg == <<factoryCall, built, userConfig, name, config, mode>>
vars == <<factoryCall, built, userConfig, name, config, mode, mongoClient,
          client, reconnecting, healthyHosts, closed, closeDone, lastProvided,
          conn, prom, waiters, call, mq>>

\* this.healthyHosts before its first assignment (a value no provider yields)
UnsetHosts == <<[host |-> "undefined", port |-> Undefined]>>

\* this.config as the constructor leaves it; authSource is absent from every
\* AuthConfig used here.
Options(replicaSet) ==
  [keepAlive |-> TRUE, maxPoolSize |-> 5, connectTimeoutMS |-> 30000,
   socketTimeoutMS |-> 30000, serverSelectionTimeoutMS |-> 10000,
   readPreference |-> "secondaryPreferred", authSource |-> <<>>,
   replicaSet |-> replicaSet]

\* new MongoConnect(name, emitter, userConfig, mode): the fields it assigns.
\* userConfig.getServers is given by the set of lists the provider may
\* resolve to.
MongoConnect(nm, uc, md) ==
  [name |-> nm, userConfig |-> uc, config |-> Options(<<>>), mode |-> md]

\* class ServerMongo: getServers: () => Promise.resolve([{ host, port }])
ServerMongo(nm, c) ==
  MongoConnect(nm, [auth |-> c.auth, getServers |-> {<<c.server[1]>>}],
               "server")

\* A ReplSet that does not attach the replica-set name to the options.
ReplSetNoName(nm, c) ==
  MongoConnect(nm, [auth |-> c.auth, getServers |-> {c.replica[1].servers}],
               "replset")

\* class ReplSet: getServers: () => Promise.resolve(replica.servers), then
\* this.config.replicaSet = replica.name
ReplSet(nm, c) ==
  [MongoConnect(nm, [auth |-> c.auth,
                     getServers |-> {c.replica[1].servers}], "replset")
     EXCEPT !.config.replicaSet = <<c.replica[1].name>>]

\* class ShardMongo: getServers: shard.getServers
ShardMongo(nm, c) ==
  MongoConnect(nm, [auth |-> c.auth, getServers |-> c.shard[1].getServers],
               "shard")

\* throw new Error(message)
Raise(message) == [raised |-> message]
Raised(r) == "raised" \in DOMAIN r

\* MongoFactory(mode, name, emitter, config)
MongoFactory(md, nm, c) ==
  CASE md = "server" -> ServerMongo(nm, c)
    [] md = "replset" -> ReplSet(nm, c)
    [] md = "shard" -> ShardMongo(nm, c)
    [] OTHER -> Raise("Invalid architecture")

\* A MongoFactoryAuto that looks at the shard field first.
MongoFactoryAutoShardFirst(nm, c) ==
  IF c.shard # <<>> THEN MongoFactory("shard", nm, c)
  ELSE IF c.replica # <<>> THEN MongoFactory("replset", nm, c)
  ELSE MongoFactory("server", nm, c)

\* MongoFactoryAuto(name, emitter, config)
MongoFactoryAuto(nm, c) ==
  IF c.replica # <<>> THEN MongoFactory("replset", nm, c)
  ELSE IF c.shard # <<>> THEN MongoFactory("shard", nm, c)
  ELSE MongoFactory("server", nm, c)

\* getHealthyHosts(): return this.healthyHosts || []
getHealthyHosts(hh) == IF hh = UnsetHosts THEN <<>> ELSE hh

\* `${server.host}:${server.port}`
HostPort(server) == server.host \o ":" \o ToString(server.port)

\* A join that keeps the first server only.
JoinHostsFirst(servers) ==
  IF servers = <<>> THEN <<>> ELSE <<HostPort(servers[1])>>

\* servers.map(...).join(","), as the sequence of its pieces
RECURSIVE JoinHosts(_)
JoinHosts(servers) ==
  IF servers = <<>> THEN <<>>
  ELSE IF Len(servers) = 1 THEN <<HostPort(servers[1])>>
  ELSE <<HostPort(servers[1]), ",">> \o JoinHosts(Tail(servers))

\* A getConnectionUrl without the fallback to the cache.
UsedServersNoFallback(servers, hh) == servers

\* A getConnectionUrl that never takes the provider's list.
UsedServersCacheOnly(servers, hh) == getHealthyHosts(hh)

\* A getConnectionUrl that keeps the first server of the provider's list only.
UsedServersFirstOnly(servers, hh) ==
  IF Len(servers) = 0 THEN getHealthyHosts(hh) ELSE <<servers[1]>>

\* A getConnectionUrl that adds the provider's list to the cached one.
UsedServersAppend(servers, hh) == getHealthyHosts(hh) \o servers

\* The list getConnectionUrl uses: the provider's, or the cache when empty.
UsedServers(servers, hh) ==
  IF Len(servers) = 0 THEN getHealthyHosts(hh) ELSE servers

\* A getConnectionUrl that pushes the credentials after the host list.
getConnectionUrlAuthLast(servers, hh, auth, nm) ==
  <<"mongodb://">>
  \o JoinHosts(UsedServers(servers, hh))
  \o (IF auth # <<>> THEN <<auth[1] \o ":" \o auth[2] \o "@">> ELSE <<>>)
  \o (IF nm # "" THEN <<"?appName=" \o nm>> ELSE <<>>)

\* URLSearchParams.toString() of the one value set: form encoding, a space
\* becomes "+" (the names in use hold no other character that is encoded).
FormEncode(nm) == IF nm = "my svc" THEN "my+svc" ELSE nm

\* getConnectionUrl(): the URL as the sequence of the pieces it joins.
getConnectionUrl(servers, hh, auth, nm) ==
  <<"mongodb://">>
  \o (IF auth # <<>> THEN <<auth[1] \o ":" \o auth[2] \o "@">> ELSE <<>>)
  \o JoinHosts(UsedServers(servers, hh))
  \o (IF nm # "" THEN <<"?appName=" \o FormEncode(nm)>> ELSE <<>>)

\* The wrapped driver rejects a URL without hosts (an external collaborator:
\* every other outcome of a handshake is left open).
HostTokens == {HostPort(S1), HostPort(S2)}
DriverAccepts(url) == \E k \in 1..Len(url) : url[k] \in HostTokens

(* --------------------------- notifications ----------------------------- *)

\* `this` inside a method of the manager: the configuration fields it can read
This ==
  [name |-> name, userConfig |-> userConfig, config |-> config, mode |-> mode]

\* success(message): this.emitter.emit("success", { service, message, data })
success(this, message) ==
  [channel |-> "success", service |-> this.name, message |-> message]

\* error(err): this.emitter.emit("error", { service, data, err })
error(this, err) == [channel |-> "error", service |-> this.name, err |-> err]

\* A connect() that prints the URL of each attempt on the console.
AttemptOutputUrl(this, url, attempt) ==
  <<[channel |-> "console", action |-> "connecting", connectionUrl |-> url,
     attempt |-> attempt]>>

\* What lines 149-151 emit or print between building the URL and the
\* handshake: nothing.
AttemptOutput(this, url, attempt) == <<>>

\* What the catch block emits for a retryable error: this.error(err)
RetryOutput(this, err) == <<error(this, err)>>

\* What line 169 emits: this.success(`Successfully connected in ${mode} mode`)
SuccessOutput(this) ==
  <<success(this, "Successfully connected in " \o this.mode \o " mode")>>

\* The channels of a sequence of notifications, which is what the log of an
\* invocation keeps of them.
Channels(out) == [k \in 1..Len(out) |-> out[k].channel]

(* ----------------------------- job queue ------------------------------- *)

EnvJob == [k |-> "env", id |-> 0]
CallJob(c) == [k |-> "call", id |-> c]
SettleJob(i) == [k |-> "settle", id |-> i]
\* The continuation of getConnectionUrl behind its await of the provider
\* (line 101), and the continuation of connect() behind its await of
\* getConnectionUrl (line 149).
ProviderJob(i) == [k |-> "provider", id |-> i]
UrlJob(i) == [k |-> "url", id |-> i]

Queued(job) == \E k \in 1..Len(mq) : mq[k] = job

\* Code of the embedding application or of the driver runs now: a task (the
\* queue is empty) or an application job at the head of the queue.
ExtRunning == IF mq = <<>> THEN TRUE ELSE Head(mq) = EnvJob

EnvJobs == Cardinality({k \in 1..Len(mq) : mq[k] = EnvJob})

RECURSIVE CallJobs(_)
CallJobs(cs) ==
  IF cs = <<>> THEN <<>> ELSE <<CallJob(Head(cs))>> \o CallJobs(Tail(cs))

(* ------------------------------- Init ---------------------------------- *)

NoConn == [pc |-> "unused", attempt |-> 0, connected |-> FALSE,
           oldMongoClient |-> Undefined, servers |-> <<>>,
           connectionUrl |-> <<>>, options |-> <<>>,
           viaRecovery |-> FALSE, result |-> "none",
           log |-> <<>>, sleeps |-> <<>>]

\* A handleMongoError call: where it is, the promise it awaits (Null for
\* Promise.resolve()), the connect() it started, and what it returned.
NoCall == [pc |-> "idle", awaiting |-> Null, started |-> Null, ret |-> "none"]

\* One configuration of each shape.
ServerConfig(auth) ==
  [server |-> <<S1>>, replica |-> <<>>, shard |-> <<>>, auth |-> auth]
ReplicaConfig(auth) ==
  [server |-> <<>>, shard |-> <<>>, auth |-> auth,
   replica |-> <<[name |-> "rs0", servers |-> ReplicaServers]>>]
ShardConfig(auth) ==
  [server |-> <<>>, replica |-> <<>>, auth |-> auth,
   shard |-> <<[getServers |-> ShardLists]>>]

ConfigOf(md, auth) ==
  CASE md = "server" -> ServerConfig(auth)
    [] md = "replset" -> ReplicaConfig(auth)
    [] OTHER -> ShardConfig(auth)

\* The factory calls Spec is explored for.
RecoveryConfigs ==
  {[via |-> "MongoFactory", mode |-> "server", name |-> "svc",
    config |-> ServerConfig(<<>>)],
   [via |-> "MongoFactory", mode |-> "replset", name |-> "svc",
    config |-> ReplicaConfig(<<"u", "p">>)],
   [via |-> "MongoFactory", mode |-> "shard", name |-> "svc",
    config |-> [server |-> <<>>, replica |-> <<>>, auth |-> <<>>,
                shard |-> <<[getServers |-> {<<S1>>}]>>]]}

\* The factory calls SpecConnect is explored for: every mode, with and
\* without credentials, with and without a name.
ConnectConfigs ==
  {[via |-> "MongoFactory", mode |-> md, name |-> nm,
    config |-> ConfigOf(md, auth)] :
     md \in MODES, nm \in Names, auth \in AuthConfigs}

\* The factory calls SpecFactory is explored for: MongoFactory with every
\* mode tag and every configuration that has the shape the tag's subtype
\* reads, and MongoFactoryAuto with every configuration.
FactoryCalls ==
  {f \in [via : {"MongoFactory"}, mode : ModeTags, name : Names,
          config : MongoConfigs] :
     /\ f.mode = "server" => f.config.server # <<>>
     /\ f.mode = "replset" => f.config.replica # <<>>
     /\ f.mode = "shard" => f.config.shard # <<>>}
  \cup [via : {"MongoFactoryAuto"}, mode : {""}, name : Names,
        config : MongoConfigs]

\* What the factory call f evaluates to.
Make(f) ==
  IF f.via = "MongoFactory" THEN MongoFactory(f.mode, f.name, f.config)
  ELSE MongoFactoryAuto(f.name, f.config)

\* The fields of a manager that has not been constructed.
Unbuilt == MongoConnect("", [auth |-> <<>>, getServers |-> {}], "")

\* The connection state of a new manager: no field of it is assigned by the
\* constructor.
Fresh ==
  /\ mongoClient = Undefined
  /\ client = Undefined
  /\ reconnecting = Undefined
  /\ healthyHosts = UnsetHosts
  /\ closed = {}
  /\ closeDone = {}
  /\ lastProvided = <<>>
  /\ conn = [i \in Connects |-> NoConn]
  /\ prom = [i \in Connects |-> "none"]
  /\ waiters = [i \in Connects |-> <<>>]
  /\ call = [c \in Callers |-> NoCall]
  /\ mq = <<>>

\* The state after one of the factory calls has returned its manager.
Constructed(calls) ==
  /\ factoryCall \in calls
  /\ built = "manager"
  /\ userConfig = Make(factoryCall).userConfig
  /\ name = Make(factoryCall).name
  /\ config = Make(factoryCall).config
  /\ mode = Make(factoryCall).mode
  /\ Fresh

Init == Constructed(RecoveryConfigs)

InitConnect == Constructed(ConnectConfigs)

\* A factory call is about to be made.
InitFactory ==
  /\ factoryCall \in FactoryCalls
  /\ built = "pending"
  /\ userConfig = Unbuilt.userConfig
  /\ name = Unbuilt.name
  /\ config = Unbuilt.config
  /\ mode = Unbuilt.mode
  /\ Fresh

\* The factory call is made: the manager is constructed, or the factory
\* raises and nothing is constructed.
Construct ==
  /\ built = "pending"
  /\ LET r == Make(factoryCall) IN
       IF Raised(r)
       THEN /\ built' = r.raised
            /\ UNCHANGED <<userConfig, name, config, mode>>
       ELSE /\ built' = "manager"
            /\ userConfig' = r.userConfig
            /\ name' = r.name
            /\ config' = r.config
            /\ mode' = r.mode
  /\ UNCHANGED <<factoryCall, mgr, reconnecting, conn, prom, waiters, call, mq>>

(* ------------------------------ connect() ------------------------------ *)

\* A loop that allows one attempt more.
LoopCondOffByOne(connected, attempt) ==
  ~connected /\ attempt <= MaxAttempts + 1

\* A loop without the cap on the attempts.
LoopCondNoCap(connected, attempt) == ~connected

\* while (!connected && attempt <= 10)
LoopCond(connected, attempt) == ~connected /\ attempt <= MaxAttempts

\* A backoff that does not grow with the attempt number.
BackoffFlat(attempt) == BackoffFactor * MsPerSecond

\* A backoff that starts at zero for the first failure.
BackoffFromZero(attempt) == BackoffFactor * (attempt - 1) * MsPerSecond

\* setTimeout(res, 2 * attempt * 1000): the backoff in milliseconds
Backoff(attempt) == BackoffFactor * attempt * MsPerSecond

\* A Db taken from the client that was active when connect() started.
DbOfOld(mc, old) == old

\* A Db taken from the client that was active before, when there was one.
DbOfPrevious(mc, old) == IF old # Undefined THEN old ELSE mc

\* this.mongoClient.db(this.userConfig.db): the Db is named by its client
DbOf(mc, old) == mc

\* The old client closed before the Db is derived and success is emitted.
PostLoopLogCloseFirst(old) ==
  (IF old # Undefined THEN <<"close">> ELSE <<>>)
  \o <<"db", "success", "listeners">>

\* The notifications and calls of lines 168-189 in program order: the Db is
\* derived, success is emitted, the listeners are registered, the old client
\* is closed.
PostLoopLog(old) ==
  <<"db">> \o Channels(SuccessOutput(This)) \o <<"listeners">>
  \o (IF old # Undefined THEN <<"close">> ELSE <<>>)

\* A connect() that awaits the close of the old client before it returns.
AfterCloseAwaited(old) == IF old # Undefined THEN "closing" ELSE "returned"

\* Where the invocation is once lines 185-188 have run: oldMongoClient.close()
\* is called and not awaited, so `return this` follows at once.
AfterClose(old) == "returned"

\* A connect() that assigns this.mongoClient before it awaits the handshake.
ClientDuringHandshakeEager(mc, i) == i

\* this.mongoClient while the handshake is awaited: the client of line 150 is
\* a local constant, so the field keeps its value until line 155.
ClientDuringHandshake(mc, i) == mc

\* A connect() that drops the replica-set name from the options it passes.
ClientOptionsNoReplicaSet(this) == <<[this.config EXCEPT !.replicaSet = <<>>]>>

\* The options of new MongoClient(connectionUrl, this.config), as the one
\* element of a sequence (the field is empty before the first attempt).
ClientOptions(this) == <<this.config>>

\* What the await of mongoClient.connect() resuming normally does before the
\* loop condition is read again: lines 155-156.
InstallLog == <<"handshake", "install">>

\* A recovery whose promise is never settled.
CompletionNever(q, i, c0) == q

\* The promise of a recovery settles one job after connect() has finished.
Completion(q, i, c0) ==
  IF c0.viaRecovery THEN Append(q, SettleJob(i)) ELSE q

\* Lines 168-189, run when the loop has ended; c0 is the invocation's record
\* and mc the value of this.mongoClient at that point.
Finish(i, c0, mc) ==
  IF mc = Undefined
  THEN \* this.mongoClient.db of undefined: a TypeError rejects connect()
       /\ conn' = [conn EXCEPT ![i] =
                     [c0 EXCEPT !.pc = "thrown", !.result = "TypeError"]]
       /\ UNCHANGED <<client, closed>>
       /\ mq' = Completion(mq, i, c0)
  ELSE /\ client' = DbOf(mc, c0.oldMongoClient)
       /\ closed' = IF c0.oldMongoClient # Undefined
                    THEN closed \cup {c0.oldMongoClient} ELSE closed
       /\ conn' = [conn EXCEPT ![i] =
                     [c0 EXCEPT !.pc = AfterClose(c0.oldMongoClient),
                                !.result = "returned",
                                !.log = @ \o PostLoopLog(c0.oldMongoClient)]]
       /\ mq' = Completion(mq, i, c0)

\* The provider of ServerMongo and of ReplSet returns Promise.resolve(...), a
\* promise that is settled when getConnectionUrl awaits it; the provider of
\* ShardMongo is the caller's function, whose promise settles when it does.
ProviderSettled(md) == md \in {"server", "replset"}

\* getConnectionUrl awaits the provider (line 101): behind a settled promise
\* its continuation is queued at once.
AwaitProvider(q, i) ==
  IF ProviderSettled(mode) THEN Append(q, ProviderJob(i)) ELSE q

\* The loop condition is read: another iteration calls getConnectionUrl, which
\* calls the provider and awaits it; otherwise the code after the loop runs.
Iterate(i, c0, mc) ==
  IF LoopCond(c0.connected, c0.attempt)
  THEN /\ conn' = [conn EXCEPT ![i] =
                     [c0 EXCEPT !.pc = "getServers", !.log = @ \o <<"attempt">>]]
       /\ mq' = AwaitProvider(mq, i)
       /\ UNCHANGED <<client, closed>>
  ELSE Finish(i, c0, mc)

\* connect() is called: lines 141-149 up to the await of the provider.
StartConnect(i, rec) ==
  [NoConn EXCEPT !.pc = "getServers", !.attempt = 1,
                 !.oldMongoClient = mongoClient, !.viaRecovery = rec,
                 !.log = <<"attempt">>]

\* The embedding application calls mongo.connect() itself.
DirectConnect(i) ==
  /\ built = "manager"
  /\ ExtRunning
  /\ conn[i].pc = "unused"
  /\ \A j \in Connects : j < i => conn[j].pc # "unused"
  /\ conn' = [conn EXCEPT ![i] = StartConnect(i, FALSE)]
  /\ mq' = AwaitProvider(mq, i)
  /\ UNCHANGED <<cfg, mgr, reconnecting, prom, waiters, call>>

\* The promise of the caller's shard.getServers settles: the continuation of
\* getConnectionUrl is queued.
ProviderResolves(i) ==
  /\ ExtRunning
  /\ ~ProviderSettled(mode)
  /\ conn[i].pc = "getServers"
  /\ ~Queued(ProviderJob(i))
  /\ mq' = Append(mq, ProviderJob(i))
  /\ UNCHANGED <<cfg, mgr, reconnecting, conn, prom, waiters, call>>

\* The await of the provider resumes with the list servers: the rest of
\* getConnectionUrl (lines 102-125), which writes the cache and returns the
\* URL; the continuation of connect() behind line 149 is queued.
ProviderReturns(i, servers) ==
  /\ mq # <<>>
  /\ Head(mq) = ProviderJob(i)
  /\ conn[i].pc = "getServers"
  /\ healthyHosts' = UsedServers(servers, healthyHosts)
  /\ lastProvided' = IF servers # <<>> THEN servers ELSE lastProvided
  /\ LET url == getConnectionUrl(servers, healthyHosts, userConfig.auth, name)
     IN conn' = [conn EXCEPT
                   ![i].pc = "getUrl",
                   ![i].servers = servers,
                   ![i].connectionUrl = url]
  /\ mq' = Append(Tail(mq), UrlJob(i))
  /\ UNCHANGED <<cfg, mongoClient, client, closed, closeDone, reconnecting,
                 prom, waiters, call>>

\* The await of getConnectionUrl resumes (line 149): new
\* MongoClient(connectionUrl, this.config) and the await of its connect().
ConnectionUrlReturns(i) ==
  /\ mq # <<>>
  /\ Head(mq) = UrlJob(i)
  /\ conn[i].pc = "getUrl"
  /\ conn' = [conn EXCEPT
                ![i].pc = "handshake",
                ![i].options = ClientOptions(This),
                ![i].log =
                  @ \o Channels(AttemptOutput(This, conn[i].connectionUrl,
                                              conn[i].attempt))]
  /\ mongoClient' = ClientDuringHandshake(mongoClient, i)
  /\ mq' = Tail(mq)
  /\ UNCHANGED <<cfg, client, healthyHosts, closed, closeDone, lastProvided,
                 reconnecting, prom, waiters, call>>

\* The handshake succeeds: lines 155-156, then the loop ends and lines 168-189
\* run, all without a suspension point.
HandshakeOk(i) ==
  /\ ExtRunning
  /\ conn[i].pc = "handshake"
  /\ DriverAccepts(conn[i].connectionUrl)
  /\ mongoClient' = i
  /\ Iterate(i, [conn[i] EXCEPT !.connected = TRUE, !.connectionUrl = <<>>,
                                !.servers = <<>>,
                                !.log = @ \o InstallLog], i)
  /\ UNCHANGED <<cfg, healthyHosts, closeDone, lastProvided, reconnecting,
                 prom, waiters, call>>

\* The attempt raises err: the catch block (lines 157-166).
HandshakeFail(i, err) ==
  /\ ExtRunning
  /\ conn[i].pc = "handshake"
  /\ IF isValidError(err)
     THEN /\ conn' = [conn EXCEPT ![i].pc = "sleep",
                                  ![i].connectionUrl = <<>>,
                                  ![i].servers = <<>>,
                                  ![i].log =
                                    @ \o <<"raised">>
                                      \o Channels(RetryOutput(This, err))
                                      \o <<"sleep">>,
                                  ![i].sleeps =
                                    Append(@, Backoff(conn[i].attempt))]
          /\ mq' = mq
     ELSE /\ conn' = [conn EXCEPT ![i].pc = "thrown",
                                  ![i].connectionUrl = <<>>,
                                  ![i].servers = <<>>,
                                  ![i].log = @ \o <<"raised">>,
                                  ![i].result = "wrapped"]
          /\ mq' = Completion(mq, i, conn[i])
  /\ UNCHANGED <<cfg, mgr, reconnecting, prom, waiters, call>>

\* Retryable failures raised so far, over all invocations.
RECURSIVE SumSleeps(_)
SumSleeps(is) ==
  IF is = {} THEN 0
  ELSE LET i == CHOOSE j \in is : TRUE
       IN Len(conn[i].sleeps) + SumSleeps(is \ {i})

Faults == SumSleeps(Connects)

\* HandshakeFail within the fault budget of Spec.
BoundedHandshakeFail(i, err) ==
  /\ isValidError(err) => Faults < MaxFaults
  /\ HandshakeFail(i, err)

\* The backoff timer fires: attempt++ and the loop condition is read again.
SleepDone(i) ==
  /\ ExtRunning
  /\ conn[i].pc = "sleep"
  /\ Iterate(i, [conn[i] EXCEPT !.attempt = @ + 1], mongoClient)
  /\ UNCHANGED <<cfg, mongoClient, healthyHosts, closeDone, lastProvided,
                 reconnecting, prom, waiters, call>>

\* oldMongoClient.close(), which nothing awaits, completes.
CloseCompletes(k) ==
  /\ ExtRunning
  /\ k \in closed \ closeDone
  /\ closeDone' = closeDone \cup {k}
  /\ UNCHANGED <<cfg, mongoClient, client, healthyHosts, closed, lastProvided,
                 reconnecting, conn, prom, waiters, call, mq>>

(* -------------------------- handleMongoError --------------------------- *)

\* A check that finds no recovery in flight whatever the marker holds.
NoRecoveryAlways(r) == TRUE

\* if (mongo.reconnecting === null)
NoRecovery(r) == r = Null

\* handleMongoError(err, mongo) is called by caller c: lines 194-201 up to
\* the await (or line 205 for an error that is not retryable).
handleMongoError(c, err) ==
  /\ built = "manager"
  /\ ExtRunning
  /\ call[c].pc \in {"idle", "done"}
  /\ IF ~isValidError(err)
     THEN /\ call' = [call EXCEPT ![c] =
                        [NoCall EXCEPT !.pc = "done", !.ret = err]]
          /\ UNCHANGED <<reconnecting, conn, prom, waiters, mq>>
     ELSE IF NoRecovery(reconnecting)
     THEN \E i \in Connects :
            /\ conn[i].pc = "unused"
            /\ \A j \in Connects : j < i => conn[j].pc # "unused"
            /\ conn' = [conn EXCEPT ![i] = StartConnect(i, TRUE)]
            /\ reconnecting' = i
            /\ prom' = [prom EXCEPT ![i] = "pending"]
            /\ waiters' = [waiters EXCEPT ![i] = <<c>>]
            /\ call' = [call EXCEPT ![c] =
                          [NoCall EXCEPT !.pc = "awaitP", !.awaiting = i,
                                         !.started = i]]
            /\ mq' = AwaitProvider(mq, i)
     ELSE IF reconnecting # Undefined /\ prom[reconnecting] = "pending"
     THEN /\ waiters' = [waiters EXCEPT ![reconnecting] = Append(@, c)]
          /\ call' = [call EXCEPT ![c] =
                        [NoCall EXCEPT !.pc = "awaitP",
                                       !.awaiting = reconnecting]]
          /\ UNCHANGED <<reconnecting, conn, prom, mq>>
     ELSE \* a settled promise, or Promise.resolve(): the continuation is
          \* queued at once
          /\ call' = [call EXCEPT ![c] =
                        [NoCall EXCEPT !.pc = "queued",
                                       !.awaiting =
                                         IF reconnecting = Undefined
                                         THEN Null ELSE reconnecting]]
          /\ mq' = Append(mq, CallJob(c))
          /\ UNCHANGED <<reconnecting, conn, prom, waiters>>
  /\ UNCHANGED <<cfg, mgr>>

\* A stored promise that fulfils whatever connect() did.
PromiseStateSwallowed(result) == "fulfilled"

\* How mongo.connect().then(() => null) settles: fulfilled when connect()
\* returned, rejected with its error when it raised (there is no catch).
PromiseState(result) ==
  IF result = "returned" THEN "fulfilled" ELSE "rejected"

\* The reaction of mongo.connect().then(() => null) runs: the stored promise
\* settles and the continuations of all its waiters are queued, in order.
Settle ==
  /\ mq # <<>>
  /\ Head(mq).k = "settle"
  /\ LET i == Head(mq).id IN
       /\ prom' = [prom EXCEPT ![i] = PromiseState(conn[i].result)]
       /\ mq' = Tail(mq) \o CallJobs(waiters[i])
       /\ call' = [c \in Callers |->
                     IF call[c].pc = "awaitP" /\ call[c].awaiting = i
                     THEN [call[c] EXCEPT !.pc = "queued"] ELSE call[c]]
       /\ waiters' = [waiters EXCEPT ![i] = <<>>]
  /\ UNCHANGED <<cfg, mgr, reconnecting, conn>>

\* The marker after the await: mongo.reconnecting = null
AfterAwait(r) == Null

\* The await of handleMongoError resumes: lines 202-203, or the rejection is
\* thrown out of the call.
Resume ==
  /\ mq # <<>>
  /\ Head(mq).k = "call"
  /\ LET c == Head(mq).id
         p == call[c].awaiting
     IN IF p # Null /\ prom[p] = "rejected"
        THEN /\ call' = [call EXCEPT ![c] =
                           [NoCall EXCEPT !.pc = "done", !.ret = "raised"]]
             /\ UNCHANGED reconnecting
        ELSE /\ call' = [call EXCEPT ![c] =
                           [NoCall EXCEPT !.pc = "done", !.ret = "null"]]
             /\ reconnecting' = AfterAwait(reconnecting)
  /\ mq' = Tail(mq)
  /\ UNCHANGED <<cfg, mgr, conn, prom, waiters>>

(* ---------------------- the embedding application ---------------------- *)

\* Application code queues a job of its own (a promise reaction).
EnvYield ==
  /\ ExtRunning
  /\ EnvJobs < MaxEnvJobs + (IF mq # <<>> /\ Head(mq) = EnvJob THEN 1 ELSE 0)
  /\ mq' = Append(mq, EnvJob)
  /\ UNCHANGED <<cfg, mgr, reconnecting, conn, prom, waiters, call>>

\* The application job at the head of the queue ends.
EnvDone ==
  /\ mq # <<>>
  /\ Head(mq) = EnvJob
  /\ mq' = Tail(mq)
  /\ UNCHANGED <<cfg, mgr, reconnecting, conn, prom, waiters, call>>

Next ==
  \/ \E i \in Connects : DirectConnect(i)
  \/ \E i \in Connects : ProviderResolves(i)
  \/ \E i \in Connects : \E servers \in userConfig.getServers :
       ProviderReturns(i, servers)
  \/ \E i \in Connects : ConnectionUrlReturns(i)
  \/ \E i \in Connects : HandshakeOk(i)
  \/ \E i \in Connects : \E err \in ErrKinds : BoundedHandshakeFail(i, err)
  \/ \E i \in Connects : SleepDone(i)
  \/ \E k \in Connects : CloseCompletes(k)
  \/ \E c \in Callers : \E err \in ErrKinds : handleMongoError(c, err)
  \/ Settle
  \/ Resume
  \/ EnvYield
  \/ EnvDone

Spec == Init /\ [][Next]_vars

\* The event loop runs the job at the head of its queue: a continuation of
\* getConnectionUrl, of connect() or of a handleMongoError call, the reaction
\* that settles a recovery's promise, or a job of the application, which ends.
RunsJob ==
  \/ \E i \in Connects : \E servers \in userConfig.getServers :
       ProviderReturns(i, servers)
  \/ \E i \in Connects : ConnectionUrlReturns(i)
  \/ Settle
  \/ Resume
  \/ EnvDone

\* Every connect() invocation terminates: what it awaits from outside (the
\* caller's provider, the handshake, the backoff timer) completes although
\* the event loop is busy with other jobs again and again in between, hence
\* strong fairness. The loop runs every job of its queue: the job at the head
\* stays enabled until it is taken.
FairRecovery ==
  /\ \A i \in Connects :
       SF_vars(\/ ProviderResolves(i)
               \/ HandshakeOk(i)
               \/ \E err \in ErrKinds : BoundedHandshakeFail(i, err)
               \/ SleepDone(i))
  /\ WF_vars(RunsJob)

\* The factory calls SpecFair is explored for: a provider whose promise is
\* settled when it is awaited and one whose promise settles later.
FairConfigs == {f \in RecoveryConfigs : f.mode \in {"server", "shard"}}

InitFair == Constructed(FairConfigs)

SpecFair == InitFair /\ [][Next]_vars /\ FairRecovery

\* connect() alone: the application calls connect(), possibly again while an
\* earlier invocation is still running or in the same job, and never
\* handleMongoError.
NextConnect ==
  \/ \E i \in Connects : DirectConnect(i)
  \/ \E i \in Connects : ProviderResolves(i)
  \/ \E i \in Connects : \E servers \in userConfig.getServers :
       ProviderReturns(i, servers)
  \/ \E i \in Connects : ConnectionUrlReturns(i)
  \/ \E i \in Connects : HandshakeOk(i)
  \/ \E i \in Connects : \E err \in ErrKinds : HandshakeFail(i, err)
  \/ \E i \in Connects : SleepDone(i)
  \/ \E k \in Connects : CloseCompletes(k)
  \/ EnvYield
  \/ EnvDone

SpecConnect == InitConnect /\ [][NextConnect]_vars

\* What an invocation awaits from outside completes (the caller's provider
\* settles, the handshake succeeds or raises, the backoff timer fires), and
\* the event loop runs every job of its queue.
FairConnect ==
  /\ \A i \in Connects :
       SF_vars(\/ ProviderResolves(i)
               \/ HandshakeOk(i)
               \/ \E err \in ErrKinds : HandshakeFail(i, err)
               \/ SleepDone(i))
  /\ WF_vars(RunsJob)

\* The factory calls SpecConnectFair is explored for: every mode.
TerminationConfigs ==
  {f \in ConnectConfigs : f.name = "" /\ f.config.auth = <<>>}

InitConnectFair == Constructed(TerminationConfigs)

SpecConnectFair == InitConnectFair /\ [][NextConnect]_vars /\ FairConnect

\* A factory call, then connect() on the manager it made up to the handshake
\* of the first attempt, which shows what the manager's provider returns.
NextFactory ==
  \/ Construct
  \/ \E i \in Connects : DirectConnect(i)
  \/ \E i \in Connects : ProviderResolves(i)
  \/ \E i \in Connects : \E servers \in userConfig.getServers :
       ProviderReturns(i, servers)
  \/ \E i \in Connects : ConnectionUrlReturns(i)

SpecFactory == InitFactory /\ [][NextFactory]_vars

(* ------------------------------ properties ----------------------------- *)

InFlight(i) == conn[i].pc \in {"getServers", "getUrl", "handshake", "sleep"}
Finished(i) == conn[i].pc \in {"returned", "thrown"}
InCall(c) == call[c].pc \in {"awaitP", "queued"}

\* Caller c calls handleMongoError with a retryable error in this step.
CallBegins(c) ==
  call[c].pc \in {"idle", "done"} /\ call'[c].pc \in {"awaitP", "queued"}

\* The call of caller c completes in this step.
CallEnds(c) == InCall(c) /\ call'[c].pc = "done"

\* The recoveries (connect() started by handleMongoError) in progress.
Recoveries == {i \in Connects : conn[i].viaRecovery /\ InFlight(i)}

\* C1 (recovery dedup): a retryable call made while another call's recovery
\* is still in flight starts no connect() of its own and awaits that
\* recovery, and a call completes only after the connect() it awaits has.
C1_Step ==
  /\ \A c1 \in Callers : \A c2 \in Callers \ {c1} :
       ( /\ InCall(c1)
         /\ call[c1].started # Null
         /\ InFlight(call[c1].started)
         /\ CallBegins(c2) )
       => /\ call'[c2].started = Null
          /\ call'[c2].awaiting = call[c1].started
  /\ \A c \in Callers :
       (CallEnds(c) /\ call[c].awaiting # Null) => Finished(call[c].awaiting)

C1_RecoveryDedup == [][C1_Step]_vars

\* C2 (single recovery): in every reachable state at most one connect()
\* started by handleMongoError is in progress.
C2_AtMostOneRecovery == Cardinality(Recoveries) <= 1

\* C3 (recovery starts): a retryable call made while the marker holds no
\* recovery promise, a freshly constructed manager included, starts connect().
C3_Step ==
  \A c \in Callers :
    (CallBegins(c) /\ reconnecting \notin Connects) => call'[c].started # Null

C3_RetryableStartsRecovery == [][C3_Step]_vars

\* C4 (non-retryable pass-through): a call with an error that is no
\* server-selection, network or network-timeout failure returns that error,
\* starts no connect() and leaves the marker, the client handle, the database
\* handle and the healthy-host cache as they were.
C4_Step ==
  \A c \in Callers :
    handleMongoError(c, "OtherError")
    => /\ call'[c].pc = "done"
       /\ call'[c].ret = "OtherError"
       /\ UNCHANGED <<reconnecting, mongoClient, client, healthyHosts, conn,
                      closed, prom>>

C4_NonRetryableUnchanged == [][C4_Step]_vars

\* a non-retryable call has returned while a recovery is in flight
C4_Witness ==
  \E c \in Callers : call[c].ret = "OtherError" /\ Recoveries # {}

(* ------------------------ properties of connect() ---------------------- *)

Has(seq, e) == \E k \in 1..Len(seq) : seq[k] = e
Count(seq, e) == Cardinality({k \in 1..Len(seq) : seq[k] = e})
CountBefore(seq, m, e) == Cardinality({k \in 1..(m - 1) : seq[k] = e})

\* First position of e in seq, 0 when absent.
Pos(seq, e) ==
  IF Has(seq, e)
  THEN CHOOSE k \in 1..Len(seq) :
         seq[k] = e /\ \A m \in 1..(k - 1) : seq[m] # e
  ELSE 0

\* All attempts of invocation i failed with retryable errors and it is over.
Exhausted(i) ==
  Finished(i) /\ conn[i].result # "wrapped" /\ ~Has(conn[i].log, "handshake")

\* C5 (retry bound): an invocation makes at most 10 attempts and none after
\* a handshake has succeeded.
C5_AttemptBound ==
  \A i \in Connects :
    LET log == conn[i].log IN
      /\ Count(log, "attempt") <= 10
      /\ \A k \in 1..Len(log) : \A m \in 1..Len(log) :
           (log[k] = "handshake" /\ m > k) => log[m] # "attempt"

\* an invocation has used all 10 attempts
C5_Witness ==
  \E i \in Connects : Exhausted(i) /\ Count(conn[i].log, "attempt") = 10

\* The schedule both readings of C6 share: the k-th sleep lasts 2*k seconds,
\* follows the k-th retryable failure and precedes attempt k+1; none precedes
\* attempt 1.
Schedule(i) ==
  LET log == conn[i].log
      sleeps == conn[i].sleeps
  IN /\ \A k \in 1..Len(sleeps) : sleeps[k] = 2 * k * 1000
     /\ Len(sleeps) = Count(log, "sleep")
     /\ \A m \in 1..Len(log) :
          /\ log[m] = "attempt"
             => CountBefore(log, m, "sleep") = CountBefore(log, m, "attempt")
          /\ log[m] = "sleep"
             => /\ m > 1 /\ log[m - 1] = "error"
                /\ CountBefore(log, m, "sleep") + 1
                     = CountBefore(log, m, "attempt")

\* C6 as stated: sleeps for k = 1..9 only, so 9 sleeps when all 10 attempts
\* fail and none after the 10th failure.
C6_NineSleeps ==
  \A i \in Connects :
    /\ Schedule(i)
    /\ Len(conn[i].sleeps) <= 9
    /\ Exhausted(i) => Len(conn[i].sleeps) = 9

\* C6 (backoff schedule, amended): no sleep before the first attempt; after
\* the k-th attempt fails with a retryable error a sleep of exactly 2*k
\* seconds follows, for k = 1..10, so an invocation whose 10 attempts all
\* fail sleeps 10 times, the last time (20 seconds) after the 10th failure.
C6_BackoffSchedule ==
  \A i \in Connects :
    /\ Schedule(i)
    /\ Len(conn[i].sleeps) = Count(conn[i].log, "error")
    /\ Len(conn[i].sleeps) <= 10
    /\ Exhausted(i) => Len(conn[i].sleeps) = 10

\* an invocation has failed 10 times and slept 20 seconds after the last
C6_Witness ==
  \E i \in Connects :
    /\ Exhausted(i)
    /\ Len(conn[i].sleeps) = 10
    /\ conn[i].sleeps[10] = 20000

\* C7 (non-retryable short-circuit): an error that is not retryable, on any
\* attempt, ends the invocation at once with the wrapped error: no sleep and
\* no further attempt, then or later.
C7_Step ==
  \A i \in Connects :
    /\ HandshakeFail(i, "OtherError")
       => /\ conn'[i].pc = "thrown"
          /\ conn'[i].result = "wrapped"
          /\ conn'[i].sleeps = conn[i].sleeps
          /\ Count(conn'[i].log, "attempt") = Count(conn[i].log, "attempt")
    /\ conn[i].pc = "thrown" => conn'[i] = conn[i]

C7_NonRetryableEnds == [][C7_Step]_vars

\* an invocation was ended by a non-retryable error on a later attempt
C7_Witness ==
  \E i \in Connects :
    /\ conn[i].result = "wrapped"
    /\ conn[i].pc = "thrown"
    /\ Count(conn[i].log, "attempt") = 3
    /\ Len(conn[i].sleeps) = 2

\* C8 (success needs a handshake): connect() returns and emits success only
\* if a handshake succeeded in that invocation; with all 10 attempts failed
\* it raises, whether or not an earlier client handle exists.
C8_ReturnsOnlyAfterHandshake ==
  \A i \in Connects :
    /\ (conn[i].result = "returned" \/ Has(conn[i].log, "success"))
       => Has(conn[i].log, "handshake")
    /\ Exhausted(i) => conn[i].pc = "thrown"

\* C9 (handle swap): when an invocation whose handshake succeeded returns,
\* the Db derives from the client of that handshake, not from an earlier one,
\* and close has been called on the client that was active at its start.
C9_Step ==
  \A i \in Connects :
    ( /\ conn[i].pc # "returned"
      /\ conn'[i].pc = "returned"
      /\ Has(conn'[i].log, "handshake") )
    => /\ mongoClient' = i
       /\ client' = i
       /\ client' # conn[i].oldMongoClient
       /\ conn[i].oldMongoClient # Undefined
          => conn[i].oldMongoClient \in closed'

C9_HandleSwap == [][C9_Step]_vars

\* a reconnect has replaced client 1 by client 2 and closed client 1
C9_Witness ==
  \E i \in Connects :
    /\ conn[i].pc = "returned"
    /\ Has(conn[i].log, "handshake")
    /\ conn[i].oldMongoClient \in Connects
    /\ conn[i].oldMongoClient # i
    /\ client = i
    /\ conn[i].oldMongoClient \in closed

\* C10 (order within connect): the handshake succeeds, then the new client
\* is installed, then success is emitted, then the old client is closed; no
\* client is installed before its handshake has succeeded.
C10_EventOrder ==
  \A i \in Connects :
    LET log == conn[i].log IN
      /\ \A m \in 1..Len(log) :
           log[m] = "install" => (m > 1 /\ log[m - 1] = "handshake")
      /\ Has(log, "handshake")
         => /\ Pos(log, "handshake") < Pos(log, "install")
            /\ conn[i].pc = "returned"
            /\ Pos(log, "install") < Pos(log, "success")
            /\ Has(log, "close") => Pos(log, "success") < Pos(log, "close")
            /\ Count(log, "success") = 1

\* a reconnect has gone through all four events
C10_Witness ==
  \E i \in Connects :
    /\ Has(conn[i].log, "handshake")
    /\ Has(conn[i].log, "success")
    /\ Has(conn[i].log, "close")

\* C11 (close is not awaited): the step in which the handshake of an
\* invocation succeeds is the step in which it returns; the close of the
\* client that was active at its start has been called by then and need not
\* have completed, then or ever.
C11_Step ==
  \A i \in Connects :
    HandshakeOk(i)
    => /\ conn'[i].pc = "returned"
       /\ conn[i].oldMongoClient # Undefined
          => /\ conn[i].oldMongoClient \in closed'
             /\ closeDone' = closeDone

C11_CloseNotAwaited == [][C11_Step]_vars

\* a reconnect has returned while the close of the old client is pending
C11_Witness ==
  \E i \in Connects :
    /\ conn[i].pc = "returned"
    /\ Has(conn[i].log, "handshake")
    /\ conn[i].oldMongoClient \in closed \ closeDone

\* C12 (the active handle is open): in every reachable state close has not
\* been called on the manager's active client handle; a client is closed only
\* after a different, newly connected client has been installed.
C12_ActiveNeverClosed == mongoClient \notin closed

(* ------------------ properties of getConnectionUrl --------------------- *)

\* The host segment of a URL: its host:port tokens and the commas between.
HostSegment(url) ==
  SelectSeq(url, LAMBDA piece : piece \in HostTokens \cup {","})

\* getConnectionUrl resumes in invocation i in this step (the provider has
\* returned) and builds the URL of the attempt.
UrlBuilt(i) == conn[i].pc = "getServers" /\ conn'[i].pc = "getUrl"

\* C13 (empty-list fallback): when the provider returns an empty list the
\* host segment of the URL is made from the last non-empty list a provider
\* call returned before, in this or an earlier invocation, and is empty when
\* there has been none.
C13_Step ==
  \A i \in Connects :
    (UrlBuilt(i) /\ conn'[i].servers = <<>>)
    => HostSegment(conn'[i].connectionUrl) = JoinHosts(lastProvided)

C13_EmptyListFallback == [][C13_Step]_vars

\* an attempt whose provider returned nothing uses the two hosts of an
\* earlier result
C13_Witness ==
  \E i \in Connects :
    /\ conn[i].pc = "handshake"
    /\ conn[i].servers = <<>>
    /\ HostSegment(conn[i].connectionUrl) = JoinHosts(<<S2, S1>>)

\* C14 (the cache is never cleared): getHealthyHosts() equals the last
\* non-empty list the provider returned, the empty list before there was one,
\* and once it is non-empty it never becomes empty again.
C14_Step ==
  getHealthyHosts(healthyHosts) # <<>> => getHealthyHosts(healthyHosts') # <<>>

C14_CacheNeverCleared ==
  /\ [](getHealthyHosts(healthyHosts) = lastProvided)
  /\ [][C14_Step]_vars

\* the cache holds a host after the provider returned nothing on a third
\* attempt
C14_Witness ==
  \E i \in Connects :
    /\ conn[i].pc = "handshake"
    /\ conn[i].servers = <<>>
    /\ Count(conn[i].log, "attempt") >= 3
    /\ getHealthyHosts(healthyHosts) = <<S1>>

\* The 'username:password@' segment of a credential pair.
Credential(auth) == auth[1] \o ":" \o auth[2] \o "@"
Credentials == {Credential(auth) : auth \in AuthConfigs \ {<<>>}}

\* C15 (URL assembly): without credentials and with N >= 1 hosts from the
\* provider the URL is 'mongodb://' followed directly by exactly N host:port
\* tokens, in the provider's order, joined by commas, with no credential
\* segment; nothing follows the hosts but the appName query of a named
\* manager.
C15_Step ==
  \A i \in Connects :
    (UrlBuilt(i) /\ userConfig.auth = <<>> /\ Len(conn'[i].servers) >= 1)
    => LET url == conn'[i].connectionUrl
           sv == conn'[i].servers
           N == Len(sv)
       IN /\ url[1] = "mongodb://"
          /\ Len(url) >= 2 * N
          /\ \A k \in 1..N : url[2 * k] = sv[k].host \o ":" \o ToString(sv[k].port)
          /\ \A k \in 1..(N - 1) : url[2 * k + 1] = ","
          /\ Cardinality({k \in 1..Len(url) : url[k] \in HostTokens}) = N
          /\ \A k \in 1..Len(url) : url[k] \notin Credentials
          /\ \/ Len(url) = 2 * N /\ name = ""
             \/ Len(url) = 2 * N + 1 /\ name = "my svc"
                /\ url[2 * N + 1] = "?appName=my+svc"

C15_UrlAssembly == [][C15_Step]_vars

\* the URL of two hosts, in the provider's order, of an unnamed manager
\* without credentials
C15_Witness ==
  \E i \in Connects :
    /\ conn[i].pc = "handshake"
    /\ userConfig.auth = <<>>
    /\ conn[i].servers = <<S2, S1>>
    /\ conn[i].connectionUrl = <<"mongodb://", "h2:27018", ",", "h1:27017">>

\* C16 (credential prefix): with credentials configured every URL holds
\* exactly one 'username:password@' segment, directly after 'mongodb://' and
\* directly before the host list, also when the hosts come from the cache or
\* there are none.
C16_Step ==
  \A i \in Connects :
    (UrlBuilt(i) /\ userConfig.auth # <<>>)
    => LET url == conn'[i].connectionUrl
           hosts == HostSegment(url)
       IN /\ url[1] = "mongodb://"
          /\ Len(url) >= 2
          /\ url[2] = "u:p@"
          /\ Count(url, "u:p@") = 1
          /\ Len(url) >= 2 + Len(hosts)
          /\ SubSeq(url, 3, 2 + Len(hosts)) = hosts

C16_CredentialPrefix == [][C16_Step]_vars

\* a URL with credentials whose hosts come from the cache
C16_Witness ==
  \E i \in Connects :
    /\ conn[i].pc = "handshake"
    /\ userConfig.auth # <<>>
    /\ conn[i].servers = <<>>
    /\ conn[i].connectionUrl[2] = "u:p@"
    /\ HostSegment(conn[i].connectionUrl) # <<>>

\* C17 (every connection error is reported): each error an attempt raises,
\* retryable or not, is followed by an 'error' event before connect() retries
\* or re-throws.
C17_EveryErrorReported ==
  \A i \in Connects :
    LET log == conn[i].log IN
      \A m \in 1..Len(log) :
        log[m] = "raised" => (m < Len(log) /\ log[m + 1] = "error")

\* C18 (error classification): connect() retries an error, and
\* handleMongoError takes it into the recovery path, exactly when it is a
\* server-selection, network or network-timeout failure; on that path the
\* call starts a recovery when the marker is null and joins the one in flight
\* when the marker holds its promise.
C18_Step ==
  LET Listed(err) == err \in {"MongoServerSelectionError", "MongoNetworkError",
                              "MongoNetworkTimeoutError"}
  IN /\ \A i \in Connects : \A err \in ErrKinds :
          HandshakeFail(i, err)
          => /\ conn'[i].pc = "sleep" <=> Listed(err)
             /\ conn'[i].pc = "thrown" <=> ~Listed(err)
     /\ \A c \in Callers : \A err \in ErrKinds :
          handleMongoError(c, err)
          => /\ call'[c].pc \in {"awaitP", "queued"} <=> Listed(err)
             /\ call'[c].ret = err <=> ~Listed(err)
             /\ (Listed(err) /\ reconnecting = Null)
                => call'[c].started \in Connects
             /\ (Listed(err) /\ reconnecting \in Connects
                   /\ prom[reconnecting] = "pending")
                => /\ call'[c].awaiting = reconnecting
                   /\ call'[c].started = Null

C18_SameClassification == [][C18_Step]_vars

\* a recovery has retried an error inside connect() while a second call,
\* made with a retryable error, has joined it
C18_Witness ==
  \E i \in Connects : \E c \in Callers :
    /\ conn[i].viaRecovery
    /\ Len(conn[i].sleeps) >= 1
    /\ call[c].pc = "awaitP"
    /\ call[c].awaiting = i
    /\ call[c].started = Null

(* --------------------- properties of the factories --------------------- *)

\* The factory call is made in this step.
Constructs == built = "pending" /\ built' # "pending"

\* C19 (MongoFactory): mode 'server' gives a manager whose provider returns
\* the one configured host, 'replset' one whose provider returns the
\* configured member list and whose options carry the replica-set name,
\* 'shard' one whose provider is the caller's function; any other mode raises
\* 'Invalid architecture', constructs nothing, and nothing can be done after.
C19_Step ==
  LET f == factoryCall
      c == factoryCall.config
  IN f.via = "MongoFactory"
     => /\ built # "Invalid architecture"
        /\ Constructs
           => /\ f.mode = "server"
                 => /\ built' = "manager" /\ mode' = "server"
                    /\ userConfig'.getServers = {<<c.server[1]>>}
                    /\ config'.replicaSet = <<>>
              /\ f.mode = "replset"
                 => /\ built' = "manager" /\ mode' = "replset"
                    /\ userConfig'.getServers = {c.replica[1].servers}
                    /\ config'.replicaSet = <<c.replica[1].name>>
              /\ f.mode = "shard"
                 => /\ built' = "manager" /\ mode' = "shard"
                    /\ userConfig'.getServers = c.shard[1].getServers
                    /\ config'.replicaSet = <<>>
              /\ f.mode \notin {"server", "replset", "shard"}
                 => /\ built' = "Invalid architecture"
                    /\ UNCHANGED <<userConfig, name, config, mode, mgr, conn>>
              /\ built' = "manager"
                 => /\ name' = f.name
                    /\ userConfig'.auth = c.auth
        /\ \A i \in Connects :
             UrlBuilt(i)
             => /\ f.mode = "server" => conn'[i].servers = <<c.server[1]>>
                /\ f.mode = "replset"
                   => conn'[i].servers = c.replica[1].servers
                /\ f.mode = "shard"
                   => conn'[i].servers \in c.shard[1].getServers

C19_FactoryByMode == [][C19_Step]_vars

\* a replica-set manager made by MongoFactory carries the set's name and its
\* provider has returned the configured member
C19_Witness ==
  /\ factoryCall.via = "MongoFactory"
  /\ factoryCall.mode = "replset"
  /\ built = "manager"
  /\ config.replicaSet = <<"rs1">>
  /\ \E i \in Connects :
       conn[i].pc = "handshake" /\ conn[i].servers = <<S2>>

\* C20 (MongoFactoryAuto): a configuration with a replica field gives the
\* replica-set manager, otherwise one with a shard field the sharded manager,
\* otherwise the single-server manager; the manager is the one MongoFactory
\* makes for that mode, and replica wins over shard when both are present.
C20_Step ==
  LET f == factoryCall
      c == factoryCall.config
      inferred == IF c.replica # <<>> THEN "replset"
                  ELSE IF c.shard # <<>> THEN "shard" ELSE "server"
      expected == MongoFactory(inferred, f.name, c)
  IN (f.via = "MongoFactoryAuto" /\ Constructs)
     => /\ built' = "manager"
        /\ mode' = inferred
        /\ userConfig' = expected.userConfig
        /\ name' = expected.name
        /\ config' = expected.config
        /\ (c.replica # <<>> /\ c.shard # <<>>)
           => /\ mode' = "replset"
              /\ userConfig'.getServers = {c.replica[1].servers}
              /\ config'.replicaSet = <<c.replica[1].name>>
        /\ (c.replica = <<>> /\ c.shard # <<>>)
           => /\ mode' = "shard"
              /\ userConfig'.getServers = c.shard[1].getServers
        /\ (c.replica = <<>> /\ c.shard = <<>>)
           => /\ mode' = "server"
              /\ userConfig'.getServers = {<<c.server[1]>>}

C20_FactoryAuto == [][C20_Step]_vars

\* MongoFactoryAuto has made a replica-set manager from a configuration that
\* carries both replica and shard, and its provider has returned the members
C20_Witness ==
  /\ factoryCall.via = "MongoFactoryAuto"
  /\ factoryCall.config.replica # <<>>
  /\ factoryCall.config.shard # <<>>
  /\ built = "manager"
  /\ mode = "replset"
  /\ \E i \in Connects :
       /\ conn[i].pc = "handshake"
       /\ conn[i].servers = factoryCall.config.replica[1].servers

(* ------------------- properties of the recovery path ------------------- *)

\* C21 (Recovering is entered from Connected): handleMongoError starts a
\* connect() only on a manager that has an active client handle installed by
\* an earlier successful connect().
C21_Step ==
  \A c \in Callers :
    (CallBegins(c) /\ call'[c].started # Null)
    => /\ mongoClient \in Connects
       /\ Has(conn[mongoClient].log, "handshake")

C21_RecoveryFromConnected == [][C21_Step]_vars

(* -------------------------- properties of output ----------------------- *)

Passwords == {"p", "q"}

\* The manager that differs from this one in the configured password only.
WithPassword(pw) == [This EXCEPT !.userConfig.auth = <<@[1], pw>>]

\* The URL url of this manager with the credential segment of the manager
\* other in the place of its own.
UrlOfOther(url, other) ==
  [k \in 1..Len(url) |->
     IF url[k] = Credential(userConfig.auth)
     THEN Credential(other.userConfig.auth) ELSE url[k]]

\* connect() resumes behind getConnectionUrl in invocation i in this step and
\* creates the client of the attempt.
ClientMade(i) == conn[i].pc = "getUrl" /\ conn'[i].pc = "handshake"

\* C22 (credentials are not logged): at every step of connect() the
\* notifications and the console output of this manager equal those of the
\* manager that differs in the password only and sees the same provider
\* result, driver outcome and error, although the URLs of the two differ; the
\* log of the invocation grows by exactly these notifications.
C22_Step ==
  userConfig.auth # <<>>
  => \A pw \in Passwords :
       LET other == WithPassword(pw) IN
         /\ \A i \in Connects :
              UrlBuilt(i)
              => LET urlOther == getConnectionUrl(conn'[i].servers,
                                                  healthyHosts,
                                                  other.userConfig.auth,
                                                  other.name)
                 IN /\ pw # userConfig.auth[2]
                       => urlOther # conn'[i].connectionUrl
                    /\ urlOther = UrlOfOther(conn'[i].connectionUrl, other)
                    /\ conn'[i].log = conn[i].log
         /\ \A i \in Connects :
              ClientMade(i)
              => LET url == conn[i].connectionUrl
                     out == AttemptOutput(This, url, conn[i].attempt)
                 IN /\ AttemptOutput(other, UrlOfOther(url, other),
                                     conn[i].attempt) = out
                    /\ conn'[i].log = conn[i].log \o Channels(out)
         /\ \A i \in Connects : \A err \in ErrKinds :
              (HandshakeFail(i, err) /\ conn'[i].pc = "sleep")
              => /\ RetryOutput(other, err) = RetryOutput(This, err)
                 /\ conn'[i].log
                      = conn[i].log \o <<"raised">>
                          \o Channels(RetryOutput(This, err)) \o <<"sleep">>
         /\ \A i \in Connects :
              (conn[i].pc # "returned" /\ conn'[i].pc = "returned")
              => /\ SuccessOutput(other) = SuccessOutput(This)
                 /\ Count(conn'[i].log, "success")
                      = Count(conn[i].log, "success") + 1
                 /\ ~Has(conn'[i].log, "console")
         /\ \A c \in Callers :
              (CallBegins(c) \/ CallEnds(c))
              => \A i \in Connects :
                   Count(conn'[i].log, "error") = Count(conn[i].log, "error")

C22_CredentialsNotLogged == [][C22_Step]_vars

\* a recovery of a manager with credentials has emitted an error and then
\* a success notification
C22_Witness ==
  /\ userConfig.auth # <<>>
  /\ \E i \in Connects :
       /\ conn[i].viaRecovery
       /\ Has(conn[i].log, "error")
       /\ Has(conn[i].log, "success")

RECURSIVE SeqSum(_)
SeqSum(seq) == IF seq = <<>> THEN 0 ELSE Head(seq) + SeqSum(Tail(seq))

\* C23 (total backoff): the sleeps of an invocation in which all 10 attempts
\* failed with retryable errors sum to 110 seconds.
C23_TotalBackoff ==
  \A i \in Connects : Exhausted(i) => SeqSum(conn[i].sleeps) = 110 * 1000

\* an invocation has used up its attempts after 110 seconds of sleep
C23_Witness ==
  \E i \in Connects :
    /\ Exhausted(i)
    /\ Count(conn[i].log, "attempt") = 10
    /\ SeqSum(conn[i].sleeps) = 110000

\* C24 (atomic check-and-set): a retryable call that finds the marker null
\* leaves it holding the promise of the connect() it started, in the same
\* step; a retryable call issued next, while that call still awaits and the
\* marker still holds its promise, starts no connect() and awaits that promise.
C24_Step ==
  \A c \in Callers :
    CallBegins(c)
    => /\ reconnecting = Null
          => /\ call'[c].started \in Connects
             /\ reconnecting' = call'[c].started
             /\ prom'[reconnecting'] = "pending"
             /\ conn[reconnecting'].pc = "unused"
             /\ conn'[reconnecting'].pc = "getServers"
       /\ \A c1 \in Callers \ {c} :
            ( /\ call[c1].pc = "awaitP"
              /\ call[c1].started \in Connects
              /\ reconnecting = call[c1].started )
            => /\ call'[c].started = Null
               /\ call'[c].awaiting = call[c1].started
               /\ conn' = conn
               /\ reconnecting' = reconnecting

C24_AtomicCheckAndSet == [][C24_Step]_vars

\* two calls issued one after the other await the one recovery the first of
\* them started
C24_Witness ==
  \E c1 \in Callers : \E c2 \in Callers \ {c1} :
    /\ call[c1].pc = "awaitP"
    /\ call[c2].pc = "awaitP"
    /\ call[c1].started \in Connects
    /\ call[c2].started = Null
    /\ call[c2].awaiting = call[c1].started
    /\ reconnecting = call[c1].started
    /\ Cardinality({i \in Connects : conn[i].viaRecovery}) = 1

\* C25 (connect() terminates): when every provider call, handshake and sleep
\* completes, each invocation of connect() that has started eventually
\* returns or raises, and it never makes more than 10 attempts.
C25_ConnectTerminates ==
  /\ [](\A i \in Connects : Count(conn[i].log, "attempt") <= MaxAttempts)
  /\ \A i \in Connects : (conn[i].pc # "unused") ~> Finished(i)

\* two overlapping invocations have both ended, one of them after 10 failed
\* attempts
C25_Witness ==
  /\ \A i \in Connects : Finished(i)
  /\ \E i \in Connects : Exhausted(i) /\ conn[i].attempt = MaxAttempts + 1
  /\ \E i \in Connects : conn[i].result = "wrapped"

\* C26 (the options are fixed): no step of connect(), handleMongoError or the
\* driver changes the options record the constructor made, whose replica-set
\* name is set for the replica-set variant only, and every attempt of every
\* invocation passes exactly that record to the client it creates.
C26_Step == config' = config

C26_OptionsFixed ==
  /\ [][C26_Step]_vars
  /\ [](/\ config = Make(factoryCall).config
        /\ config.replicaSet # <<>> <=> factoryCall.mode = "replset"
        /\ \A i \in Connects :
             conn[i].options \in {<<>>, <<Make(factoryCall).config>>})

\* the second attempt of a recovery on a replica-set manager has passed the
\* options with the replica-set name
C26_Witness ==
  \E i \in Connects :
    /\ conn[i].viaRecovery
    /\ conn[i].attempt = 2
    /\ conn[i].pc = "handshake"
    /\ conn[i].options = <<config>>
    /\ config.replicaSet = <<"rs0">>

\* C27 (getConnectionUrl is idempotent): when getConnectionUrl has built a
\* URL, a second call right after it with the same provider result would
\* build the same URL and leave the cache as the first call left it; the call
\* changes nothing of the manager but the cache.
C27_Step ==
  \A i \in Connects :
    UrlBuilt(i)
    => LET servers == conn'[i].servers IN
         /\ getConnectionUrl(servers, healthyHosts', userConfig.auth, name)
              = conn'[i].connectionUrl
         /\ UsedServers(servers, healthyHosts') = healthyHosts'
         /\ UNCHANGED <<mongoClient, client, reconnecting, config, closed,
                        userConfig, name>>

C27_UrlIdempotent == [][C27_Step]_vars

\* the second attempt in a row of a single-server manager has built the URL
\* of its one host again
C27_Witness ==
  \E i \in Connects :
    /\ mode = "server"
    /\ conn[i].attempt = 2
    /\ conn[i].pc = "handshake"
    /\ healthyHosts = <<S1>>
    /\ HostSegment(conn[i].connectionUrl) = <<"h1:27017">>

\* No handleMongoError call awaits the promise of recovery i any more.
NoWaiter(i) == \A c \in Callers : ~(InCall(c) /\ call[c].awaiting = i)

\* C28 (a failed recovery is cleared): once a recovery has failed and the
\* calls that awaited it have resumed, the marker no longer holds its promise,
\* so the next retryable call starts a fresh connect().
C28_FailedRecoveryCleared ==
  \A i \in Connects :
    (prom[i] = "rejected" /\ NoWaiter(i)) => reconnecting # i

\* C29 (null means reconnected): a call returns null only if the connect() it
\* started or joined has returned after a successful handshake.
C29_Step ==
  \A c \in Callers :
    (CallEnds(c) /\ call'[c].ret = "null")
    => /\ call[c].awaiting \in Connects
       /\ conn[call[c].awaiting].result = "returned"
       /\ Has(conn[call[c].awaiting].log, "handshake")

C29_NullMeansReconnected == [][C29_Step]_vars

\* C30 (a failure reaches every caller): every call that started or joined a
\* recovery whose connect() raised ends by raising, and none returns null.
C30_Step ==
  \A c \in Callers :
    ( /\ CallEnds(c)
      /\ call[c].awaiting \in Connects
      /\ conn[call[c].awaiting].pc = "thrown" )
    => call'[c].ret = "raised"

C30_FailureReachesAll == [][C30_Step]_vars

\* the call that started a failed recovery has raised and the call that
\* joined it is about to resume with the same rejection
C30_Witness ==
  \E c1 \in Callers : \E c2 \in Callers \ {c1} : \E i \in Connects :
    /\ conn[i].viaRecovery
    /\ conn[i].pc = "thrown"
    /\ prom[i] = "rejected"
    /\ call[c1].ret = "raised"
    /\ call[c2].pc = "queued"
    /\ call[c2].awaiting = i
    /\ mq # <<>>
    /\ Head(mq) = CallJob(c2)

(* ------------------------ properties of the handles -------------------- *)

\* The clients that have been installed as this.mongoClient at some time.
Installed == {k \in Connects : Has(conn[k].log, "install")}

\* C31 (no handle is leaked): whenever no connect() is in progress, close has
\* been called on every client that was installed as the active handle and is
\* not the active one any more, also after overlapping invocations.
C31_NoHandleLeak ==
  (\A i \in Connects : ~InFlight(i))
  => \A k \in Installed : k # mongoClient => k \in closed

\* C32 (the Db matches the client): in every state, each of which is a
\* suspension point of connect() and handleMongoError, the database handle is
\* unset or derives from the current active client handle.
C32_DbMatchesClient == client = Undefined \/ client = mongoClient

\* the Db derives from the client a first connect() installed while a
\* recovery is in the middle of an attempt
C32_Witness ==
  /\ mongoClient \in Connects
  /\ client = mongoClient
  /\ \E j \in Connects :
       /\ j # mongoClient
       /\ conn[j].viaRecovery
       /\ conn[j].pc = "handshake"

\* C33 (a non-retryable failure changes nothing): no step an invocation takes
\* before a handshake of its own has succeeded, the step that ends it with a
\* non-retryable error included, changes the active client handle or the
\* database handle or calls close, and an invocation that ended with a
\* non-retryable error has installed no client, derived no Db, closed no
\* client and emitted no success.
C33_Step ==
  \A i \in Connects :
    (conn'[i] # conn[i] /\ conn'[i].pc # "returned")
    => /\ UNCHANGED <<mongoClient, client, closed>>
       /\ conn'[i].result = "wrapped"
          => \A e \in {"install", "db", "success", "close"} :
               ~Has(conn'[i].log, e)

C33_NonRetryableLeavesState == [][C33_Step]_vars

\* a reconnect has ended with a non-retryable error on its second attempt
\* and client 1 is still the active, open handle
C33_Witness ==
  \E i \in Connects :
    /\ conn[i].result = "wrapped"
    /\ conn[i].attempt = 2
    /\ conn[i].oldMongoClient = 1
    /\ mongoClient = 1
    /\ client = 1
    /\ closed = {}

\* C34 (the cache is written before the handshake): when the provider of an
\* attempt returns a non-empty list, getHealthyHosts() returns that list from
\* the moment the URL is built, and the end of the handshake, whether a
\* success, a retryable or a non-retryable failure, leaves the cache alone.
C34_Step ==
  \A i \in Connects :
    /\ (UrlBuilt(i) /\ conn'[i].servers # <<>>)
       => getHealthyHosts(healthyHosts') = conn'[i].servers
    /\ (conn[i].pc = "handshake" /\ conn'[i].pc # "handshake")
       => /\ conn'[i].pc \in {"returned", "sleep", "thrown"}
          /\ healthyHosts' = healthyHosts

C34_CacheBeforeHandshake == [][C34_Step]_vars

\* the first attempt of a never connected manager has ended with a
\* non-retryable error and the cache holds the two hosts its provider returned
C34_Witness ==
  \E i \in Connects :
    /\ conn[i].result = "wrapped"
    /\ conn[i].attempt = 1
    /\ mongoClient = Undefined
    /\ lastProvided = <<S2, S1>>
    /\ getHealthyHosts(healthyHosts) = <<S2, S1>>

\* C35 (no waiter is stuck): when every connect() terminates and the event
\* loop runs its jobs, every handleMongoError call made with a retryable error
\* eventually completes, by returning null or by raising.
C35_NoWaiterStuck ==
  \A c \in Callers :
    InCall(c) ~> (call[c].pc = "done" /\ call[c].ret \in {"null", "raised"})

\* both callers have completed, after one recovery that succeeded and one
\* that failed
C35_Witness ==
  /\ \A c \in Callers : call[c].pc = "done"
  /\ \E c \in Callers : call[c].ret = "null"
  /\ \E c \in Callers : call[c].ret = "raised"
  /\ \E i \in Connects : prom[i] = "fulfilled"
  /\ \E i \in Connects : prom[i] = "rejected"
  /\ mq = <<>>

====
